---- MODULE Spec2Model ----
(***************************************************************************)
(* libression: the signed-capability layer of the sample reverse proxy     *)
(* (sample_deployment/nginx_docker.conf, sample_deployment/mac_nginx.conf) *)
(* and the client-side address translation (frontend/app/config/api.ts,    *)
(* transformWebDAVUrl), the web client (frontend/app/page.tsx,             *)
(* components/Gallery.tsx, components/ActionBar.tsx) and the static page   *)
(* (static/main.js, static/gallery.js, static/file_action.js).             *)
(***************************************************************************)
EXTENDS Integers, Sequences, FiniteSets, TLC

VARIABLES conf, now, cap, store, req, resp, url, out

\* the web client: state of App, Gallery and ActionBar, and the calls in flight
VARIABLES files, displayedFiles, thumbnailUrls, passes, selectedFiles,
          targetDir, fetches, acts, nfetch, nact

\* the call of fetchDirectoryContents whose response set the files, and the
\* directories, that App holds (0: none, they are the initial [])
VARIABLES shownBy

proxyVars == <<conf, now, cap, store, req, resp>>
translateVars == <<url, out>>
appVars == <<files, displayedFiles, thumbnailUrls, passes, selectedFiles,
             targetDir, fetches, acts, nfetch, nact, shownBy>>

\* the web client: the URLs of the links onFileClick has clicked, and a
\* call of getThumbnailUrl or getFilesUrl with the results it has returned
VARIABLES opened, call, result

linkVars == <<opened, call, result>>

\* the API server: the file keys of the library
VARIABLES library

serverVars == <<library>>

\* the static page: the document, the listeners of its controls, and the
\* refreshPage and fileAction calls in flight
VARIABLES gallery, placed, cbListeners, navBar, nrefresh, lastDir, pending,
          listed, posted

staticVars == <<gallery, placed, cbListeners, navBar, nrefresh, lastDir,
                pending, listed, posted>>
\* apiService.uploadFiles: the targetDir of the first call, and the
\* target_dir of the requests posted
VARIABLES uploadDir, uploadTarget

uploadVars == <<uploadDir, uploadTarget>>
vars == <<proxyVars, translateVars, appVars, linkVars, serverVars, staticVars,
          uploadVars>>

\* the request for a URL is rejected: no response
NoResponse == [kind |-> "rejected", base_url |-> <<>>, paths |-> <<>>]

\* The client after App, Gallery and ActionBar have mounted: nothing listed,
\* nothing selected, and the listing call of the mount effect in flight.
\* The library of the server holds a file of directory x and one of the
\* root.
AppMounted ==
    /\ files = <<>>
    /\ displayedFiles = <<>>
    /\ thumbnailUrls = {}
    /\ passes = {}
    /\ selectedFiles = <<>>
    /\ targetDir = <<>>
    /\ fetches = {[id |-> 1, stage |-> "list", keys |-> <<>>]}
    /\ acts = {}
    /\ nfetch = 1
    /\ nact = 0
    /\ shownBy = [files |-> 0, directories |-> 0]
    /\ opened = {}
    /\ library = {<<"x", "/", "1">>, <<"2">>}

\* ... and no URL has been asked for
AppInit ==
    /\ AppMounted
    /\ call = [fn |-> "none", key |-> <<>>, response |-> NoResponse]
    /\ result = <<>>

\* the elements of the static page that main.js and file_action.js look up
\* by id, and the two option checkboxes among them
PageIds == {"navigation_bar", "show_subdirs", "show_hidden_content",
            "copy_action", "move_action", "delete_action",
            "target_dir_input"}
Checkboxes == {"show_subdirs", "show_hidden_content"}

\* The static page after main.js has run: goHome() has called
\* refreshPage(""), which has bound both checkboxes to "" and waits for
\* the response; the gallery container is empty and the navigation bar is
\* the one of the HTML.
StaticInit ==
    /\ gallery = [live |-> TRUE, nodes |-> <<>>]
    /\ placed = PageIds
    /\ cbListeners = [cb \in Checkboxes |-> << <<>> >>]
    /\ navBar = [built |-> FALSE, dir |-> <<>>, entries |-> <<>>]
    /\ nrefresh = 1
    /\ lastDir = <<>>
    /\ pending = {[id |-> 1, dir |-> <<>>]}
    /\ listed = <<>>
    /\ posted = <<>>

\* no file has been uploaded
UploadInit ==
    /\ uploadDir = <<>>
    /\ uploadTarget = <<>>

(***************************************************************************)
(* Bounds of the model.                                                    *)
(***************************************************************************)
\* the server clock runs over 0..MaxTime
MaxTime == 3
\* capabilities are issued with a ttl in 1..MaxTtl
MaxTtl == 2

(***************************************************************************)
(* The two sample proxy configurations.                                    *)
(***************************************************************************)
Confs == {"nginx_docker", "mac_nginx"}

\* the two backing stores: the primary asset store and the derived store
Stores == {"libression_photos", "libression_photos_cache"}

\* files of a store, relative to the store's alias directory, and a collection
Files == {"a/b.jpg", "c.jpg"}
Dirs == {"d/"}
RelPaths == Files \cup Dirs

IsCollection(p) == p \in Dirs

AllowList == {"GET", "HEAD", "PUT", "DELETE", "MKCOL", "COPY", "MOVE",
              "PROPFIND", "OPTIONS"}
Methods == AllowList \cup {"POST"}
WriteMethods == {"PUT", "DELETE", "MKCOL", "COPY", "MOVE"}

\* basic-auth credentials of a request, checked against the .htpasswd file
Creds == {"none", "wrong", "valid"}

\* location prefix of a request URI: /<store>/ or /readonly_<store>/
LocationPrefix(s, ro) == (IF ro THEN "/readonly_" ELSE "/") \o s \o "/"

\* mutant: the URI without the location prefix
Uri_relative(s, ro, p) == "/" \o p

\* $uri of a request
Uri(s, ro, p) == LocationPrefix(s, ro) \o p

(***************************************************************************)
(* Signatures.  MD5 is modelled as an injective function of its input      *)
(* string; a signature is either absent, the digest of a string, or a      *)
(* digest with one byte altered (which is the digest of no string).        *)
(***************************************************************************)
NoSig == [of |-> "", altered |-> TRUE]
Md5(s) == [of |-> s, altered |-> FALSE]
Tamper(sig) == [of |-> sig.of, altered |-> ~sig.altered]

\* secure_link_md5 "$arg_expires$uri libression_secret_key"
SecureLinkMd5(expires, uri) ==
    Md5(ToString(expires) \o uri \o " libression_secret_key")

\* mutant: secure_link "$arg_md5" without the expiry, no expiry check
SecureLink_noExpiry(md5, expires, uri, t) ==
    IF expires <= 0 THEN ""
    ELSE IF md5 # SecureLinkMd5(expires, uri) THEN ""
    ELSE "1"

\* mutant: a link is expired from the instant of its expiry on
SecureLink_expiredAtExpiry(md5, expires, uri, t) ==
    IF expires <= 0 THEN ""
    ELSE IF md5 # SecureLinkMd5(expires, uri) THEN ""
    ELSE IF expires <= t THEN "0"
    ELSE "1"

\* mutant: the expiry is checked before the digest
SecureLink_expiryFirst(md5, expires, uri, t) ==
    IF expires <= 0 THEN ""
    ELSE IF expires < t THEN "0"
    ELSE IF md5 # SecureLinkMd5(expires, uri) THEN ""
    ELSE "1"

\* $secure_link of ngx_http_secure_link_module for
\*   secure_link "$arg_md5,$arg_expires":
\* "" when the expiry is not a positive number or the digest differs,
\* "0" when the digest matches and the expiry lies before the server time,
\* "1" otherwise.
SecureLink(md5, expires, uri, t) ==
    IF expires <= 0 THEN ""
    ELSE IF md5 # SecureLinkMd5(expires, uri) THEN ""
    ELSE IF expires < t THEN "0"
    ELSE "1"

(***************************************************************************)
(* The directives of one location block.                                   *)
(*   auth_basic      basic auth required (inherited from the server block  *)
(*                   unless switched off)                                  *)
(*   secure_link     the two "if ($secure_link ...) return" checks         *)
(*   method_filter   methods let through by "if ($request_method !~ ...)   *)
(*                   return 405"                                           *)
(*   limit_except    methods not denied by "limit_except ... {deny all;}"  *)
(*   dav_methods     methods handled by the WebDAV module                  *)
(***************************************************************************)
DockerDavLocation ==
    [auth_basic |-> TRUE, secure_link |-> FALSE, method_filter |-> AllowList,
     limit_except |-> Methods, dav_methods |-> WriteMethods]

DockerReadonlyLocation ==
    [auth_basic |-> FALSE, secure_link |-> TRUE, method_filter |-> Methods,
     limit_except |-> {"GET", "HEAD"}, dav_methods |-> {}]

MacDavLocation ==
    [auth_basic |-> TRUE, secure_link |-> FALSE, method_filter |-> Methods,
     limit_except |-> Methods, dav_methods |-> WriteMethods]

\* "limit_except GET" also lets HEAD through
MacReadonlyLocation ==
    [auth_basic |-> FALSE, secure_link |-> FALSE, method_filter |-> Methods,
     limit_except |-> {"GET", "HEAD"}, dav_methods |-> {}]

\* mutant: the readonly locations carry the directives of the WebDAV ones
Location_readonlyAsDav(c, ro) ==
    IF c = "nginx_docker" THEN DockerDavLocation ELSE MacDavLocation

\* mutant: "auth_basic off" is missing from the readonly locations
Location_authInherited(c, ro) ==
    IF c = "nginx_docker"
    THEN (IF ro THEN [DockerReadonlyLocation EXCEPT !.auth_basic = TRUE]
          ELSE DockerDavLocation)
    ELSE (IF ro THEN [MacReadonlyLocation EXCEPT !.auth_basic = TRUE]
          ELSE MacDavLocation)

\* mutant: "auth_basic off" also stands in the WebDAV locations
Location_davOpen(c, ro) ==
    IF c = "nginx_docker"
    THEN (IF ro THEN DockerReadonlyLocation
          ELSE [DockerDavLocation EXCEPT !.auth_basic = FALSE])
    ELSE (IF ro THEN MacReadonlyLocation
          ELSE [MacDavLocation EXCEPT !.auth_basic = FALSE])

Location(c, ro) ==
    IF c = "nginx_docker"
    THEN (IF ro THEN DockerReadonlyLocation ELSE DockerDavLocation)
    ELSE (IF ro THEN MacReadonlyLocation ELSE MacDavLocation)

(***************************************************************************)
(* Request processing: rewrite phase, access phase, content phase.         *)
(***************************************************************************)
Reply(status, phase, st) == [status |-> status, phase |-> phase, store |-> st]

\* the WebDAV module and the static module on the files of one store
Content(loc, r, stored) ==
    LET p == r.path
        there == p \in stored
    IN  IF r.method \in loc.dav_methods THEN
            CASE r.method = "PUT" ->
                   IF IsCollection(p) THEN <<409, stored>>
                   ELSE <<IF there THEN 204 ELSE 201, stored \cup {p}>>
              [] r.method = "DELETE" ->
                   IF there THEN <<204, stored \ {p}>> ELSE <<404, stored>>
              [] r.method = "MKCOL" ->
                   IF ~IsCollection(p) THEN <<409, stored>>
                   ELSE IF there THEN <<405, stored>>
                   ELSE <<201, stored \cup {p}>>
              [] r.method = "COPY" ->
                   IF IsCollection(p) # IsCollection(r.dest) THEN <<409, stored>>
                   ELSE IF ~there THEN <<404, stored>>
                   ELSE <<IF r.dest \in stored THEN 204 ELSE 201,
                          stored \cup {r.dest}>>
              [] r.method = "MOVE" ->
                   IF IsCollection(p) # IsCollection(r.dest) THEN <<409, stored>>
                   ELSE IF ~there THEN <<404, stored>>
                   ELSE <<IF r.dest \in stored THEN 204 ELSE 201,
                          (stored \ {p}) \cup {r.dest}>>
        ELSE IF r.method \in {"GET", "HEAD"} THEN
            <<IF there THEN 200 ELSE 404, stored>>
        ELSE <<405, stored>>

\* one request against the proxy configured by c, at server time t
Handle(c, r, t, st) ==
    LET loc == Location(c, r.readonly)
        link == SecureLink(r.md5, r.expires, Uri(r.store, r.readonly, r.path), t)
        res == Content(loc, r, st[r.store])
    IN  IF loc.secure_link /\ link = "" THEN Reply(403, "rewrite", st)
        ELSE IF loc.secure_link /\ link = "0" THEN Reply(410, "rewrite", st)
        ELSE IF r.method \notin loc.method_filter THEN Reply(405, "rewrite", st)
        ELSE IF r.method \notin loc.limit_except THEN Reply(403, "access", st)
        ELSE IF loc.auth_basic /\ r.cred # "valid" THEN Reply(401, "access", st)
        ELSE Reply(res[1], "content", [st EXCEPT ![r.store] = res[2]])

(***************************************************************************)
(* The signer of the API server: a capability for a file of a store is the *)
(* readonly URI of the file, the expiry now + ttl, and the digest over     *)
(* expiry, URI and the shared secret.                                      *)
(***************************************************************************)
Secret == "libression_secret_key"

\* MAC(secret, message): the digest of the message, a blank and the secret
Mac(k, m) == Md5(m \o " " \o k)

Sign(s, p, ttl, t) ==
    [store |-> s, path |-> p, expires |-> t + ttl, issuedAt |-> t,
     md5 |-> Mac(Secret, ToString(t + ttl) \o Uri(s, TRUE, p))]

NoCap == [store |-> "", path |-> "", expires |-> 0, issuedAt |-> 0,
          md5 |-> NoSig]

\* signatures and expiries a client can present: none, the ones of the
\* capability it holds, that signature with a byte altered, a later expiry
Signatures == {NoSig, cap.md5, Tamper(cap.md5)}
Expiries == {0, cap.expires, cap.expires + 1}

NoRequest == [method |-> "NONE", store |-> "", readonly |-> FALSE,
              path |-> "", md5 |-> NoSig, expires |-> 0, cred |-> "none",
              dest |-> ""]
NoReply == [status |-> 0, phase |-> "none"]

Idle == req = NoRequest

\* Destination header of a COPY or MOVE request
Destinations(m, p) == IF m \in {"COPY", "MOVE"} THEN Files \ {p} ELSE {""}

ProxyInit ==
    /\ conf \in Confs
    /\ now = 0
    /\ cap = NoCap
    /\ store = [s \in Stores |-> Files]
    /\ req = NoRequest
    /\ resp = NoReply

\* the server clock advances (between two requests)
Tick ==
    /\ Idle
    /\ now < MaxTime
    /\ now' = now + 1
    /\ UNCHANGED <<conf, cap, store, req, resp>>

\* the API server issues a capability to the client
Issue ==
    /\ Idle
    /\ \E s \in Stores, p \in Files, ttl \in 1..MaxTtl :
          cap' = Sign(s, p, ttl, now)
    /\ UNCHANGED <<conf, now, store, req, resp>>

\* the proxy handles request r and replies
Serve(r) ==
    LET a == Handle(conf, r, now, store)
    IN  /\ Idle
        /\ req' = r
        /\ resp' = [status |-> a.status, phase |-> a.phase]
        /\ store' = a.store
        /\ UNCHANGED <<conf, now, cap>>

\* a request on a readonly location
ReadonlyRequest ==
    \E m \in Methods, s \in Stores, p \in Files, sig \in Signatures,
       e \in Expiries, cr \in Creds :
       \E d \in Destinations(m, p) :
          Serve([method |-> m, store |-> s, readonly |-> TRUE, path |-> p,
                 md5 |-> sig, expires |-> e, cred |-> cr, dest |-> d])

\* a request on a credentialed location
DavRequest ==
    \E m \in Methods, s \in Stores, p \in RelPaths, cr \in Creds :
       \E d \in Destinations(m, p) :
          Serve([method |-> m, store |-> s, readonly |-> FALSE, path |-> p,
                 md5 |-> NoSig, expires |-> 0, cred |-> cr, dest |-> d])

\* the reply has been delivered; the connection is free for the next request
Deliver ==
    /\ ~Idle
    /\ req' = NoRequest
    /\ resp' = NoReply
    /\ UNCHANGED <<conf, now, cap, store>>

Init ==
    /\ ProxyInit
    /\ url = <<>>
    /\ out = <<>>
    /\ AppInit
    /\ StaticInit
    /\ UploadInit

\* anonymous capability traffic on the readonly locations
Next ==
    \/ Tick /\ UNCHANGED <<translateVars, appVars, staticVars, linkVars, uploadVars, serverVars>>
    \/ Issue /\ UNCHANGED <<translateVars, appVars, staticVars, linkVars, uploadVars, serverVars>>
    \/ ReadonlyRequest /\ UNCHANGED <<translateVars, appVars, staticVars, linkVars, uploadVars, serverVars>>
    \/ Deliver /\ UNCHANGED <<translateVars, appVars, staticVars, linkVars, uploadVars, serverVars>>

Spec == Init /\ [][Next]_vars

\* WebDAV traffic on the credentialed locations
NextDav ==
    \/ DavRequest /\ UNCHANGED <<translateVars, appVars, staticVars, linkVars, uploadVars, serverVars>>
    \/ Deliver /\ UNCHANGED <<translateVars, appVars, staticVars, linkVars, uploadVars, serverVars>>

SpecDav == Init /\ [][NextDav]_vars

(***************************************************************************)
(* Address translation (transformWebDAVUrl).  A URL is a sequence of       *)
(* characters.                                                             *)
(***************************************************************************)
\* API_CONFIG.ioBaseUrlServer: "https://webdav"
ioBaseUrlServer == <<"h", "t", "t", "p", "s", ":", "/", "/", "w", "e", "b", "d", "a", "v">>
\* API_CONFIG.ioBaseUrlCaller: "https://localhost:8443"
ioBaseUrlCaller == <<"h", "t", "t", "p", "s", ":", "/", "/", "l", "o", "c", "a", "l", "h", "o", "s", "t", ":", "8", "4", "4", "3">>

Digits == {"0", "1", "2", "3", "4", "5", "6", "7", "8", "9"}

\* \d+ : the length of the longest run of digits of s that starts at i
RECURSIVE DigitRun(_, _)
DigitRun(s, i) ==
    IF i <= Len(s) /\ s[i] \in Digits THEN 1 + DigitRun(s, i + 1) ELSE 0

\* mutant: the pattern /:\d+/ without the lookahead
PortMatchAt_noLookahead(s, i) ==
    /\ s[i] = ":"
    /\ DigitRun(s, i + 1) >= 1

\* /:\d+(?=\/)/ matches at i: a colon, one or more digits, and then a "/"
\* (a shorter run of digits is followed by a digit, never by "/")
PortMatchAt(s, i) ==
    /\ s[i] = ":"
    /\ DigitRun(s, i + 1) >= 1
    /\ i + DigitRun(s, i + 1) + 1 <= Len(s)
    /\ s[i + DigitRun(s, i + 1) + 1] = "/"

\* the leftmost match of the pattern at or after i, 0 when there is none
RECURSIVE PortSearch(_, _)
PortSearch(s, i) ==
    IF i > Len(s) THEN 0
    ELSE IF PortMatchAt(s, i) THEN i
    ELSE PortSearch(s, i + 1)

\* url.replace(/:\d+(?=\/)/, ""): the first match is removed (no g flag)
RemovePort(s) ==
    LET i == PortSearch(s, 1)
    IN  IF i = 0 THEN s
        ELSE SubSeq(s, 1, i - 1) \o SubSeq(s, i + DigitRun(s, i + 1) + 1, Len(s))

\* the leftmost occurrence of pat in s at or after i, 0 when there is none
RECURSIVE IndexOf(_, _, _)
IndexOf(s, pat, i) ==
    IF i + Len(pat) - 1 > Len(s) THEN 0
    ELSE IF SubSeq(s, i, i + Len(pat) - 1) = pat THEN i
    ELSE IndexOf(s, pat, i + 1)

\* s.replace(pat, rep) with a string pattern: the first occurrence only
ReplaceFirst(s, pat, rep) ==
    LET i == IndexOf(s, pat, 1)
    IN  IF i = 0 THEN s
        ELSE SubSeq(s, 1, i - 1) \o rep \o SubSeq(s, i + Len(pat), Len(s))

transformWebDAVUrl(u) ==
    ReplaceFirst(RemovePort(u), ioBaseUrlServer, ioBaseUrlCaller)

\* number of path segments appended to a host in the URLs translated
MaxSegments == 2
\* number of times the translation is applied in a row
MaxApply == 2

\* hosts and segments the translated URLs are made of
Hosts == {ioBaseUrlServer, ioBaseUrlCaller, <<"h", "t", "t", "p", ":", "/", "/", "h">>}
Segments == {<<"/", "p">>, <<":", "4", "4", "3">>, <<"/">>, <<":", "8", "0", "/", "q">>, ioBaseUrlServer}

RECURSIVE Tails(_)
Tails(n) ==
    IF n = 0 THEN {<<>>}
    ELSE Tails(n - 1) \cup {t \o g : t \in Tails(n - 1), g \in Segments}

Urls == {h \o t : h \in Hosts, t \in Tails(MaxSegments)}

\* the URL translated last: the input, or the previous result
Current == IF out = <<>> THEN url ELSE out[Len(out)]

\* the client translates a URL (again)
Translate ==
    /\ Len(out) < MaxApply
    /\ out' = Append(out, transformWebDAVUrl(Current))
    /\ UNCHANGED <<url, proxyVars, appVars, staticVars, linkVars, uploadVars, serverVars>>

InitTranslate ==
    /\ ProxyInit
    /\ url \in Urls
    /\ out = <<>>
    /\ AppInit
    /\ StaticInit
    /\ UploadInit

NextTranslate == Translate

SpecTranslate == InitTranslate /\ [][NextTranslate]_vars

(***************************************************************************)
(* The web client: App (page.tsx), Gallery and ActionBar.  A file key is a *)
(* sequence of characters; a listing is a sequence of file keys without    *)
(* repetition.                                                             *)
(***************************************************************************)
\* listing calls issued in one run, the one of the mount effect included
MaxFetches == 2
\* copy, move and delete requests sent in one run
MaxActions == 1

\* the gallery shows the first Page * PageSize files; setPage is never called
PageSize == 200
Page == 1

Range(s) == {s[i] : i \in DOMAIN s}

DigitChars == <<"0", "1", "2", "3", "4", "5", "6", "7", "8", "9">>

RECURSIVE Dec(_)
Dec(n) ==
    IF n < 10 THEN <<DigitChars[n + 1]>>
    ELSE Dec(n \div 10) \o <<DigitChars[(n % 10) + 1]>>

\* three files of two directories and the root, two with the same file name
SmallKeys == << <<"x", "/", "1">>, <<"y", "/", "1">>, <<"2">> >>
\* the files of a large directory
FillerKey(i) == <<"b", "/">> \o Dec(i)

\* the files the server holds a thumbnail for
Thumbnailed == {SmallKeys[1], SmallKeys[2]}

\* the entry files_info returns for a key (thumbnail_key, thumbnail_phash
\* and thumbnail_mime_type null when absent); the second file is a video
FileEntry(k) ==
    [file_key |-> k,
     thumbnail_key |-> IF k \in Thumbnailed THEN <<"t", "/">> \o k ELSE <<>>,
     thumbnail_phash |-> IF k \in Thumbnailed THEN <<"f">> ELSE <<>>,
     thumbnail_mime_type |->
         IF k \notin Thumbnailed THEN <<>>
         ELSE IF k = SmallKeys[2] THEN <<"v", "i", "d", "e", "o", "/", "m">>
         ELSE <<"i", "m", "a", "g", "e", "/", "j">>]

\* the listings the server may answer with: every selection of the small
\* files, and a directory of exactly one page and of one file more
Listings ==
    {SelectSeq(SmallKeys, LAMBDA k : k \in S) : S \in SUBSET Range(SmallKeys)}
    \cup {[i \in 1..n |-> FillerKey(i)] : n \in {PageSize, PageSize + 1}}

\* a string or array is falsy when empty or null
Truthy(s) == s # <<>>

\* Array.prototype.slice(0, n)
Slice(s, n) == SubSeq(s, 1, IF n < Len(s) THEN n ELSE Len(s))

FileKeys(fs) == [i \in DOMAIN fs |-> fs[i].file_key]

\* setFiles(fs) of App followed by the two effects of Gallery it triggers:
\* setDisplayedFiles(files.slice(0, page * 200)), then a new run of
\* loadThumbnailUrls over the displayed files.  The field "before" records
\* the keys displayed when the run started.
SetFiles(fs, id) ==
    /\ files' = fs
    /\ displayedFiles' = Slice(fs, Page * PageSize)
    /\ passes' = passes \cup
           {[id |-> id, files |-> Slice(fs, Page * PageSize), pos |-> 1,
             urls |-> {}, before |-> Range(FileKeys(displayedFiles))]}

\* a call of fetchDirectoryContents up to its first await
StartFetch ==
    /\ nfetch < MaxFetches
    /\ nfetch' = nfetch + 1
    /\ fetches' = fetches \cup
           {[id |-> nfetch + 1, stage |-> "list", keys |-> <<>>]}

\* the effect on [currentPath, fetchDirectoryContents]: the user navigates
\* or toggles "Show Directories"
FetchDirectoryContents ==
    /\ StartFetch
    /\ UNCHANGED <<shownBy, files, displayedFiles, thumbnailUrls, passes,
                   selectedFiles, targetDir, acts, nact>>

\* fetchDirectoryContents after its await: the listing L arrives; an empty
\* one ends the flow with setFiles([])
ListingArrivedWith(f, L) ==
    /\ f \in fetches
    /\ f.stage = "list"
    /\ IF Len(L) > 0
       THEN /\ fetches' = (fetches \ {f}) \cup
                   {[id |-> f.id, stage |-> "info", keys |-> L]}
            /\ shownBy' = [shownBy EXCEPT !.directories = f.id]
            /\ UNCHANGED <<files, displayedFiles, passes>>
       ELSE /\ fetches' = fetches \ {f}
            /\ shownBy' = [files |-> f.id, directories |-> f.id]
            /\ SetFiles(<<>>, f.id)
    /\ UNCHANGED <<thumbnailUrls, selectedFiles, targetDir, acts, nfetch,
                   nact>>

ListingArrived(f) == \E L \in Listings : ListingArrivedWith(f, L)

\* fetchDirectoryContents after its await, response.error set or the body
\* malformed: the throw is caught, setDirectories([]) and setFiles([])
ListingFailed(f) ==
    /\ f \in fetches
    /\ f.stage = "list"
    /\ fetches' = fetches \ {f}
    /\ shownBy' = [files |-> f.id, directories |-> f.id]
    /\ SetFiles(<<>>, f.id)
    /\ UNCHANGED <<thumbnailUrls, selectedFiles, targetDir, acts, nfetch,
                   nact>>

ListingResponse(f) == ListingArrived(f) \/ ListingFailed(f)

\* fetchFilesInfo after its await: the entries arrive
FilesInfoArrived(f) ==
    /\ f \in fetches
    /\ f.stage = "info"
    /\ fetches' = fetches \ {f}
    /\ shownBy' = [shownBy EXCEPT !.files = f.id]
    /\ SetFiles([i \in DOMAIN f.keys |-> FileEntry(f.keys[i])], f.id)
    /\ UNCHANGED <<thumbnailUrls, selectedFiles, targetDir, acts, nfetch,
                   nact>>

\* fetchFilesInfo after its await, response.error set: setFiles([])
FilesInfoFailed(f) ==
    /\ f \in fetches
    /\ f.stage = "info"
    /\ fetches' = fetches \ {f}
    /\ shownBy' = [shownBy EXCEPT !.files = f.id]
    /\ SetFiles(<<>>, f.id)
    /\ UNCHANGED <<thumbnailUrls, selectedFiles, targetDir, acts, nfetch,
                   nact>>

FilesInfoResponse(f) == FilesInfoArrived(f) \/ FilesInfoFailed(f)

\* the files a run of loadThumbnailUrls has yet to request a URL for
Pending(p) ==
    {i \in p.pos..Len(p.files) :
        Truthy(p.files[i].file_key) /\ Truthy(p.files[i].thumbnail_key)}

Least(S) == CHOOSE i \in S : \A j \in S : i <= j

\* the requests a run of loadThumbnailUrls has sent: getThumbnailUrl posts
\* one request per call, with file_keys: [thumbnailKey]
Requests(p) ==
    Cardinality({i \in 1..(p.pos - 1) :
        Truthy(p.files[i].file_key) /\ Truthy(p.files[i].thumbnail_key)})

\* data.base_url of a URL response: the internal address of the store,
\* with or without its port
BaseUrls == {ioBaseUrlServer, ioBaseUrlServer \o <<":", "4", "4", "3">>}

\* data.paths[key]: the read-only location and the key
Paths(key) == <<"r", "/">> \o key

\* the text a template literal gives a value that is undefined
UndefinedText == <<"u", "n", "d", "e", "f", "i", "n", "e", "d">>

\* the answer of the server to file_keys: [key]
Issued(base_url, key) ==
    [kind |-> "data", base_url |-> base_url, paths |-> (key :> Paths(key))]

\* `${data.base_url}/${data.paths[key]}`
IssuedUrl(data, key) ==
    data.base_url \o <<"/">> \o
        (IF key \in DOMAIN data.paths THEN data.paths[key] ELSE UndefinedText)

\* String.prototype.startsWith
StartsWith(s, pre) == Len(s) >= Len(pre) /\ SubSeq(s, 1, Len(pre)) = pre

https == <<"h", "t", "t", "p", "s", ":", "/", "/">>
http == <<"h", "t", "t", "p", ":", "/", "/">>

getThumbnailUrl_untranslated(thumbnailKey, response) ==
    IF ~Truthy(thumbnailKey) THEN <<>>
    ELSE IF response.kind # "data" THEN <<>>
    ELSE LET u == IssuedUrl(response, thumbnailKey)
         IN IF ~StartsWith(u, https) THEN ReplaceFirst(u, http, https) ELSE u

\* apiService.getThumbnailUrl: "" without a key and when anything in the
\* try block throws; otherwise the URL of the response is translated and
\* its scheme made https
getThumbnailUrl(thumbnailKey, response) ==
    IF ~Truthy(thumbnailKey) THEN <<>>
    ELSE IF response.kind # "data" THEN <<>>
    ELSE LET u == transformWebDAVUrl(IssuedUrl(response, thumbnailKey))
         IN IF ~StartsWith(u, https) THEN ReplaceFirst(u, http, https) ELSE u

\* apiService.getFilesUrl
getFilesUrl(fileKey, response) ==
    IF ~Truthy(fileKey) THEN <<>>
    ELSE IF response.kind # "data" THEN <<>>
    ELSE transformWebDAVUrl(IssuedUrl(response, fileKey))

\* one turn of the loop of loadThumbnailUrls: the URL of the next file with
\* a thumbnail is requested and arrives, or the request fails ("").  The
\* URL a run obtains is named by the run (url); href is its text.
ThumbStep(p) ==
    /\ p \in passes
    /\ Pending(p) # {}
    /\ LET i == Least(Pending(p))
           key == p.files[i].file_key
       IN \E ok \in BOOLEAN, base_url \in BaseUrls :
            passes' = (passes \ {p}) \cup
                {[p EXCEPT !.pos = i + 1,
                           !.urls = IF ok
                                    THEN {e \in @ : e.file_key # key} \cup
                                         {[file_key |-> key, url |-> p.id,
                                           href |-> getThumbnailUrl(
                                               p.files[i].thumbnail_key,
                                               Issued(base_url,
                                                   p.files[i].thumbnail_key))]}
                                    ELSE @]}
    /\ UNCHANGED <<shownBy, files, displayedFiles, thumbnailUrls, selectedFiles,
                   targetDir, fetches, acts, nfetch, nact>>

\* { ...prev, ...urls }
Merge(prev, urls) ==
    {e \in prev : \A u \in urls : u.file_key # e.file_key} \cup urls

\* the end of loadThumbnailUrls: setThumbnailUrls((prev) => ...)
PassFinish(p) ==
    /\ p \in passes
    /\ Pending(p) = {}
    /\ thumbnailUrls' = Merge(thumbnailUrls, p.urls)
    /\ passes' = passes \ {p}
    /\ UNCHANGED <<shownBy, files, displayedFiles, selectedFiles, targetDir, fetches,
                   acts, nfetch, nact>>

\* toggleFileSelection of Gallery, on the checkbox of a displayed file
ToggleFileSelection(k) ==
    /\ k \in Range(FileKeys(displayedFiles))
    /\ selectedFiles' =
           IF k \in Range(selectedFiles)
           THEN SelectSeq(selectedFiles, LAMBDA f : f # k)
           ELSE Append(selectedFiles, k)
    /\ UNCHANGED <<shownBy, files, displayedFiles, thumbnailUrls, passes, targetDir,
                   fetches, acts, nfetch, nact>>

\* thumbnailUrls[decodedKey] || thumbnailUrls[file.file_key] of the render of
\* Gallery ("" for undefined); the keys of the model hold no % escape, so
\* decodeURIComponent(file.file_key) is the key itself
ThumbnailUrl(k) ==
    IF \E e \in thumbnailUrls : e.file_key = k
    THEN (CHOOSE e \in thumbnailUrls : e.file_key = k).href
    ELSE <<>>

\* String.prototype.includes
Includes(s, pat) == IndexOf(s, pat, 1) # 0

Representation_hidden(file, thumbnailUrl) ==
    IF ~Truthy(thumbnailUrl) THEN "none"
    ELSE IF Includes(file.thumbnail_mime_type, <<"v", "i", "d", "e", "o">>)
    THEN "video"
    ELSE IF Truthy(file.thumbnail_phash) THEN "img"
    ELSE "none"

\* what the render of Gallery puts in the cell of a file
Representation(file, thumbnailUrl) ==
    IF ~Truthy(thumbnailUrl) THEN "BrokenImageIcon"
    ELSE IF Includes(file.thumbnail_mime_type, <<"v", "i", "d", "e", "o">>)
    THEN "video"
    ELSE IF Truthy(file.thumbnail_phash) THEN "img"
    ELSE "BrokenImageIcon"

\* the render of Gallery: one cell per displayed file, with its checkbox
\* (onChange: toggleFileSelection) and its clickable area (onClick:
\* onFileClick)
Render ==
    [i \in DOMAIN displayedFiles |->
        LET file == displayedFiles[i]
        IN [key |-> file.file_key,
            checked |-> file.file_key \in Range(selectedFiles),
            content |-> Representation(file, ThumbnailUrl(file.file_key)),
            src |-> ThumbnailUrl(file.file_key),
            onChange |-> file.file_key,
            onClick |-> file.file_key]]

\* onFileClick of App, on the cell of a displayed file: getFilesUrl, and a
\* link with the URL is clicked unless the URL is "" (the request failed)
OnFileClick(i) ==
    /\ i \in DOMAIN Render
    /\ \/ \E base_url \in BaseUrls :
              opened' = opened \cup
                  {getFilesUrl(Render[i].onClick,
                               Issued(base_url, Render[i].onClick))}
       \/ UNCHANGED opened
    /\ UNCHANGED <<call, result>>
    /\ UNCHANGED appVars

\* the target directories the user may type
TargetDirs == {<<>>, <<"y">>, <<"z", "/">>}

\* setTargetDir of ActionBar
SetTargetDir(t) ==
    /\ t # targetDir
    /\ targetDir' = t
    /\ UNCHANGED <<shownBy, files, displayedFiles, thumbnailUrls, passes,
                   selectedFiles, fetches, acts, nfetch, nact>>

\* String.prototype.split("/")
RECURSIVE Split(_)
Split(s) ==
    IF \E i \in DOMAIN s : s[i] = "/"
    THEN LET k == Least({i \in DOMAIN s : s[i] = "/"})
         IN <<SubSeq(s, 1, k - 1)>> \o Split(SubSeq(s, k + 1, Len(s)))
    ELSE <<s>>

Pop_shift(a) == a[1]

\* Array.prototype.pop(): the last element
Pop(a) == a[Len(a)]

\* files.find((f) => f.file_key === file): the positions of the entries
Found(k) == {i \in DOMAIN files : files[i].file_key = k}

\* the mapping handleAction builds for one selected file
FileMapping(file) ==
    LET fileEntry == files[Least(Found(file))]
    IN [source_key |-> fileEntry.file_key,
        destination_key |->
            targetDir \o <<"/">> \o Pop(Split(fileEntry.file_key))]

ActionBody_copyOnly(action) ==
    IF action = "delete"
    THEN [file_entries |->
              [i \in DOMAIN selectedFiles |->
                  files[Least(Found(selectedFiles[i]))]]]
    ELSE [file_mappings |->
              [i \in DOMAIN selectedFiles |-> FileMapping(selectedFiles[i])],
          delete_source |-> FALSE]

\* the body of the request handleAction sends: file_entries for delete
\* (deleteFiles), file_mappings and delete_source otherwise (copyFiles)
ActionBody(action) ==
    IF action = "delete"
    THEN [file_entries |->
              [i \in DOMAIN selectedFiles |->
                  files[Least(Found(selectedFiles[i]))]]]
    ELSE [file_mappings |->
              [i \in DOMAIN selectedFiles |-> FileMapping(selectedFiles[i])],
          delete_source |-> action = "move"]

Actions == {"copy", "move", "delete"}

HandleAction_unchecked(action) ==
    /\ nact < MaxActions
    /\ IF selectedFiles = <<>>
       THEN UNCHANGED <<acts, nact>>
       ELSE /\ nact' = nact + 1
            /\ acts' = acts \cup
                   {[id |-> nact + 1, action |-> action,
                     body |->
                         IF action = "delete"
                         THEN [file_entries |->
                                  [i \in DOMAIN selectedFiles |->
                                      [file_key |-> selectedFiles[i]]]]
                         ELSE [file_mappings |->
                                  [i \in DOMAIN selectedFiles |->
                                      [source_key |-> selectedFiles[i],
                                       destination_key |->
                                           targetDir \o <<"/">> \o
                                           Pop(Split(selectedFiles[i]))]],
                               delete_source |-> action = "move"]]}
    /\ UNCHANGED <<shownBy, files, displayedFiles, thumbnailUrls, passes,
                   selectedFiles, targetDir, fetches, nfetch>>

HandleAction_clearing(action) ==
    /\ nact < MaxActions
    /\ IF selectedFiles = <<>>
          \/ \E i \in DOMAIN selectedFiles : Found(selectedFiles[i]) = {}
       THEN UNCHANGED <<acts, nact, selectedFiles>>
       ELSE /\ nact' = nact + 1
            /\ acts' = acts \cup
                   {[id |-> nact + 1, action |-> action,
                     body |-> ActionBody(action)]}
            /\ selectedFiles' = <<>>
    /\ UNCHANGED <<shownBy, files, displayedFiles, thumbnailUrls, passes,
                   targetDir, fetches, nfetch>>

\* handleAction up to its await: nothing happens on an empty selection, and
\* nothing is sent when a selected file has no entry (the throw is caught)
HandleAction(action) ==
    /\ nact < MaxActions
    /\ IF selectedFiles = <<>>
          \/ \E i \in DOMAIN selectedFiles : Found(selectedFiles[i]) = {}
       THEN UNCHANGED <<acts, nact>>
       ELSE /\ nact' = nact + 1
            /\ acts' = acts \cup
                   {[id |-> nact + 1, action |-> action,
                     body |-> ActionBody(action)]}
    /\ UNCHANGED <<shownBy, files, displayedFiles, thumbnailUrls, passes,
                   selectedFiles, targetDir, fetches, nfetch>>

\* the JavaScript value undefined
Undefined == "undefined"

\* the value apiService.copyFiles and apiService.deleteFiles resolve to:
\* { data: undefined } when the status is OK (the body is not read),
\* { data: undefined, error } otherwise
ApiResponse(ok) ==
    [data |-> Undefined, error |-> IF ok THEN Undefined ELSE "HTTP error"]

\* App renders <ActionBar selectedFiles currentPath onRefresh files />: the
\* setSelectedFiles prop of ActionBarProps is not passed
ActionBarProps == {"selectedFiles", "currentPath", "onRefresh", "files"}

\* handleAction after its await, no error: it calls onRefresh() and then
\* setSelectedFiles([]); calling the prop that was not passed throws, and
\* the catch of handleAction logs the error.
ActionSucceeded(r) ==
    /\ r \in acts
    /\ acts' = acts \ {r}
    /\ StartFetch
    /\ selectedFiles' =
           IF "setSelectedFiles" \in ActionBarProps THEN <<>>
           ELSE selectedFiles
    /\ UNCHANGED <<shownBy, files, displayedFiles, thumbnailUrls, passes, targetDir,
                   nact>>

\* handleAction after its await, response.error set: the error is logged
ActionFailed(r) ==
    /\ r \in acts
    /\ acts' = acts \ {r}
    /\ UNCHANGED <<shownBy, files, displayedFiles, thumbnailUrls, passes,
                   selectedFiles, targetDir, fetches, nfetch, nact>>

ActionResponse(r) == ActionSucceeded(r) \/ ActionFailed(r)

\* the client alone: the proxy state stays as configured
InitApp ==
    /\ ProxyInit
    /\ conf = "nginx_docker"
    /\ url = <<>>
    /\ out = <<>>
    /\ AppInit
    /\ StaticInit
    /\ UploadInit

\* listing, reconciliation and thumbnail loading
NextGallery ==
    \/ FetchDirectoryContents /\ UNCHANGED <<proxyVars, translateVars, staticVars, linkVars, uploadVars, serverVars>>
    \/ \E f \in fetches : ListingResponse(f)
                             /\ UNCHANGED <<proxyVars, translateVars, staticVars, linkVars, uploadVars, serverVars>>
    \/ \E f \in fetches : FilesInfoResponse(f)
                             /\ UNCHANGED <<proxyVars, translateVars, staticVars, linkVars, uploadVars, serverVars>>
    \/ \E p \in passes : ThumbStep(p) /\ UNCHANGED <<proxyVars, translateVars, staticVars, linkVars, uploadVars, serverVars>>
    \/ \E p \in passes : PassFinish(p) /\ UNCHANGED <<proxyVars, translateVars, staticVars, linkVars, uploadVars, serverVars>>

SpecGallery == InitApp /\ [][NextGallery]_vars

\* navigation between directories, with the user selecting files
NextNavigate ==
    \/ FetchDirectoryContents
           /\ UNCHANGED <<proxyVars, translateVars, staticVars, linkVars, uploadVars, serverVars>>
    \/ \E f \in fetches : ListingResponse(f)
           /\ UNCHANGED <<proxyVars, translateVars, staticVars, linkVars, uploadVars, serverVars>>
    \/ \E f \in fetches : FilesInfoResponse(f)
           /\ UNCHANGED <<proxyVars, translateVars, staticVars, linkVars, uploadVars, serverVars>>
    \/ \E k \in Range(SmallKeys) : ToggleFileSelection(k)
           /\ UNCHANGED <<proxyVars, translateVars, staticVars, linkVars, uploadVars, serverVars>>

SpecNavigate == InitApp /\ [][NextNavigate]_vars

\* the first load of a directory, with the user selecting and opening the
\* files it shows
NextRender ==
    \/ \E f \in fetches : ListingResponse(f)
           /\ UNCHANGED <<proxyVars, translateVars, staticVars, linkVars, uploadVars, serverVars>>
    \/ \E f \in fetches : FilesInfoResponse(f)
           /\ UNCHANGED <<proxyVars, translateVars, staticVars, linkVars, uploadVars, serverVars>>
    \/ \E p \in passes : ThumbStep(p)
           /\ UNCHANGED <<proxyVars, translateVars, staticVars, linkVars, uploadVars, serverVars>>
    \/ \E p \in passes : PassFinish(p)
           /\ UNCHANGED <<proxyVars, translateVars, staticVars, linkVars, uploadVars, serverVars>>
    \/ \E i \in 1..Len(SmallKeys) :
           /\ i \in DOMAIN Render
           /\ ToggleFileSelection(Render[i].onChange)
           /\ UNCHANGED <<proxyVars, translateVars, staticVars, linkVars, uploadVars, serverVars>>
    \/ \E i \in 1..Len(SmallKeys) : OnFileClick(i)
           /\ UNCHANGED <<proxyVars, translateVars, staticVars, serverVars, uploadVars>>

SpecRender == InitApp /\ [][NextRender]_vars

\* selection and the copy, move and delete actions, with the listings the
\* refreshes bring
NextAction ==
    \/ \E f \in fetches : ListingResponse(f)
                             /\ UNCHANGED <<proxyVars, translateVars, staticVars, linkVars, uploadVars, serverVars>>
    \/ \E f \in fetches : FilesInfoResponse(f)
                             /\ UNCHANGED <<proxyVars, translateVars, staticVars, linkVars, uploadVars, serverVars>>
    \/ \E k \in Range(SmallKeys) : ToggleFileSelection(k)
                             /\ UNCHANGED <<proxyVars, translateVars, staticVars, linkVars, uploadVars, serverVars>>
    \/ \E t \in TargetDirs : SetTargetDir(t)
                             /\ UNCHANGED <<proxyVars, translateVars, staticVars, linkVars, uploadVars, serverVars>>
    \/ \E a \in Actions : HandleAction(a)
                             /\ UNCHANGED <<proxyVars, translateVars, staticVars, linkVars, uploadVars, serverVars>>
    \/ \E r \in acts : ActionResponse(r)
                             /\ UNCHANGED <<proxyVars, translateVars, staticVars, linkVars, uploadVars, serverVars>>

SpecAction == InitApp /\ [][NextAction]_vars

\* the directory of a key: the key without its last segment
DirName(k) ==
    IF Len(Split(k)) = 1 THEN <<>>
    ELSE SubSeq(k, 1, Len(k) - Len(Pop(Split(k))) - 1)

\* list(dir) of the server: the keys of the library in the directory
List(lib, dir) == {k \in lib : DirName(k) = dir}

\* the server applies the mappings of a copy request: every source exists,
\* and no destination exists or is written twice (a conflict is rejected)
Applicable(lib, body) ==
    LET m == body.file_mappings
    IN /\ \A i \in DOMAIN m :
             m[i].source_key \in lib /\ m[i].destination_key \notin lib
       /\ \A i, j \in DOMAIN m :
             i # j => m[i].destination_key # m[j].destination_key

\* copy(sourceKey, destKey, deleteSource) for every mapping of the request
Copied(lib, body) ==
    LET m == body.file_mappings
        sources == {m[i].source_key : i \in DOMAIN m}
        destinations == {m[i].destination_key : i \in DOMAIN m}
    IN (IF body.delete_source THEN lib \ sources ELSE lib) \cup destinations

\* the server answers a copy request: it applies the request and answers
\* OK, or rejects it and leaves the library alone
CopyServed(r) ==
    /\ r \in acts
    /\ r.action \in {"copy", "move"}
    /\ Applicable(library, r.body)
    /\ library' = Copied(library, r.body)
    /\ ActionSucceeded(r)

CopyRejected(r) ==
    /\ r \in acts
    /\ r.action \in {"copy", "move"}
    /\ UNCHANGED library
    /\ ActionFailed(r)

\* the keys of a set in the order the server lists them
RECURSIVE Listed(_)
Listed(S) ==
    IF S = {} THEN <<>>
    ELSE LET k == CHOOSE k \in S : TRUE
         IN <<k>> \o Listed(S \ {k})

\* the listing request is answered from the library
LibraryListed(f) == ListingArrivedWith(f, Listed(library))

\* copies and moves against the library of the server
NextMove ==
    \/ \E f \in fetches : LibraryListed(f)
           /\ UNCHANGED <<proxyVars, translateVars, staticVars, linkVars, uploadVars, serverVars>>
    \/ \E f \in fetches : FilesInfoResponse(f)
           /\ UNCHANGED <<proxyVars, translateVars, staticVars, linkVars, uploadVars, serverVars>>
    \/ \E k \in Range(SmallKeys) : ToggleFileSelection(k)
           /\ UNCHANGED <<proxyVars, translateVars, staticVars, linkVars, uploadVars, serverVars>>
    \/ \E t \in TargetDirs : SetTargetDir(t)
           /\ UNCHANGED <<proxyVars, translateVars, staticVars, linkVars, uploadVars, serverVars>>
    \/ \E action \in {"copy", "move"} : HandleAction(action)
           /\ UNCHANGED <<proxyVars, translateVars, staticVars, linkVars, uploadVars, serverVars>>
    \/ \E r \in acts : CopyServed(r)
           /\ UNCHANGED <<proxyVars, translateVars, staticVars, linkVars, uploadVars>>
    \/ \E r \in acts : CopyRejected(r)
           /\ UNCHANGED <<proxyVars, translateVars, staticVars, linkVars, uploadVars>>

SpecMove == InitApp /\ [][NextMove]_vars

\* the server answers a delete request: every key exists and is deleted, or
\* the request is rejected and the library left alone
DeleteServed(r) ==
    /\ r \in acts
    /\ r.action = "delete"
    /\ Range(FileKeys(r.body.file_entries)) \subseteq library
    /\ library' = library \ Range(FileKeys(r.body.file_entries))
    /\ ActionSucceeded(r)

DeleteRejected(r) ==
    /\ r \in acts
    /\ r.action = "delete"
    /\ UNCHANGED library
    /\ ActionFailed(r)

\* actions on a selection made before a navigation or a refresh, against
\* the library of the server
NextStale ==
    \/ FetchDirectoryContents
           /\ UNCHANGED <<proxyVars, translateVars, staticVars, linkVars, uploadVars, serverVars>>
    \/ \E f \in fetches : LibraryListed(f)
           /\ UNCHANGED <<proxyVars, translateVars, staticVars, linkVars, uploadVars, serverVars>>
    \/ \E f \in fetches : FilesInfoResponse(f)
           /\ UNCHANGED <<proxyVars, translateVars, staticVars, linkVars, uploadVars, serverVars>>
    \/ \E k \in Range(SmallKeys) : ToggleFileSelection(k)
           /\ UNCHANGED <<proxyVars, translateVars, staticVars, linkVars, uploadVars, serverVars>>
    \/ \E action \in Actions : HandleAction(action)
           /\ UNCHANGED <<proxyVars, translateVars, staticVars, linkVars, uploadVars, serverVars>>
    \/ \E r \in acts : CopyServed(r)
           /\ UNCHANGED <<proxyVars, translateVars, staticVars, linkVars, uploadVars>>
    \/ \E r \in acts : CopyRejected(r)
           /\ UNCHANGED <<proxyVars, translateVars, staticVars, linkVars, uploadVars>>
    \/ \E r \in acts : DeleteServed(r)
           /\ UNCHANGED <<proxyVars, translateVars, staticVars, linkVars, uploadVars>>
    \/ \E r \in acts : DeleteRejected(r)
           /\ UNCHANGED <<proxyVars, translateVars, staticVars, linkVars, uploadVars>>

SpecStale == InitApp /\ [][NextStale]_vars

(***************************************************************************)
(* The requests for a capability URL, one call at a time: the key the      *)
(* caller passes and the outcome of the request are drawn from the sets    *)
(* below.                                                                  *)
(***************************************************************************)
\* the keys a caller passes: none, a file key, a thumbnail key
UrlKeys == {<<>>, SmallKeys[1], FileEntry(SmallKeys[2]).thumbnail_key}

\* the outcomes of the request: the request is rejected, the status is not
\* OK, the body is not JSON, the body holds no paths, or the body holds
\* base_url and the paths (data.paths) of some keys
UrlResponses ==
    {[NoResponse EXCEPT !.kind = k] :
        k \in {"rejected", "status", "body", "nopaths"}}
    \cup {[kind |-> "data", base_url |-> b,
           paths |-> [k \in K |-> Paths(k)]] :
              b \in BaseUrls, K \in SUBSET (UrlKeys \ {<<>>})}

Calls == [fn : {"getThumbnailUrl", "getFilesUrl"}, key : UrlKeys,
          response : UrlResponses]

\* the call of getThumbnailUrl returns
GetThumbnailUrl ==
    /\ call.fn = "getThumbnailUrl"
    /\ result = <<>>
    /\ result' = <<getThumbnailUrl(call.key, call.response)>>
    /\ UNCHANGED <<call, opened>>

\* the call of getFilesUrl returns
GetFilesUrl ==
    /\ call.fn = "getFilesUrl"
    /\ result = <<>>
    /\ result' = <<getFilesUrl(call.key, call.response)>>
    /\ UNCHANGED <<call, opened>>

InitUrl ==
    /\ ProxyInit
    /\ conf = "nginx_docker"
    /\ url = <<>>
    /\ out = <<>>
    /\ AppMounted
    /\ StaticInit
    /\ UploadInit
    /\ call \in Calls
    /\ result = <<>>

NextUrl ==
    \/ GetThumbnailUrl /\ UNCHANGED <<proxyVars, translateVars, appVars, staticVars, serverVars, uploadVars>>
    \/ GetFilesUrl /\ UNCHANGED <<proxyVars, translateVars, appVars, staticVars, serverVars, uploadVars>>

SpecUrl == InitUrl /\ [][NextUrl]_vars

(***************************************************************************)
(* The static page: gallery.js, main.js and file_action.js.  The document  *)
(* is the set "placed" of page elements still at their place, and the      *)
(* gallery container with its child nodes, when it is in the document.     *)
(***************************************************************************)
\* refreshPage calls in one run, the one of goHome() at load included
MaxRefreshes == 2
\* fileAction requests in flight at a time
MaxPosts == 1

\* the file keys of the listings: two plain files, and two files whose key
\* is also the id of an element of the page
StaticKeys == <<"a", "b", "gallery", "target_dir_input">>

\* response_dict["file_keys"]: every selection of the keys, in server order
StaticListings ==
    {SelectSeq(StaticKeys, LAMBDA k : k \in S) :
        S \in SUBSET Range(StaticKeys)}

\* response_dict["inner_dirs"] for a directory of the library, whose
\* directories are "", "p" and "p/q"
InnerDirs(d) ==
    IF d = <<>> THEN << <<"p">> >>
    ELSE IF d = <<"p">> THEN << <<"p", "/", "q">> >>
    ELSE <<>>

\* an element of the HTML page, seen as a child node
PageElement(id) ==
    [id |-> id, kind |-> "page", by |-> 0, src |-> "", value |-> "",
     checked |-> FALSE]

\* _fetchImpression: a new node for a file key, with id and checkbox value
\* the key.  "by" numbers the refresh that created the node; together with
\* the id it is the identity of the node.
fetchImpression(file_key, by) ==
    [id |-> file_key, kind |-> "impression", by |-> by,
     src |-> "thumbnail/" \o file_key, value |-> file_key,
     checked |-> FALSE]

\* the forEach of refreshGallery.  _renderImpression takes whatever
\* document.getElementById(file_key) finds: a page element, the gallery
\* container itself, or a node of the gallery; appendChild moves it out of
\* its place into the new container "acc", which is not in the document.
\* Only when nothing is found a node is created.
RECURSIVE renderImpressions(_, _, _, _)
renderImpressions(file_keys, by, doc, acc) ==
    IF file_keys = <<>> THEN [doc |-> doc, acc |-> acc]
    ELSE LET file_key == Head(file_keys)
             hit == {i \in DOMAIN doc.nodes : doc.nodes[i].id = file_key}
         IN IF file_key \in doc.placed
            THEN renderImpressions(Tail(file_keys), by,
                     [doc EXCEPT !.placed = @ \ {file_key}],
                     Append(acc, PageElement(file_key)))
            ELSE IF doc.live /\ file_key = "gallery"
            THEN renderImpressions(Tail(file_keys), by,
                     [doc EXCEPT !.live = FALSE, !.nodes = <<>>],
                     Append(acc, PageElement(file_key)))
            ELSE IF doc.live /\ hit # {}
            THEN renderImpressions(Tail(file_keys), by,
                     [doc EXCEPT !.nodes =
                         SubSeq(@, 1, Least(hit) - 1) \o
                         SubSeq(@, Least(hit) + 1, Len(@))],
                     Append(acc, doc.nodes[Least(hit)]))
            ELSE renderImpressions(Tail(file_keys), by, doc,
                     Append(acc, fetchImpression(file_key, by)))

\* refreshGallery: the new container replaces the element with id
\* "gallery", if the document still has one
refreshGallery(file_keys, by, doc) ==
    LET r == renderImpressions(file_keys, by, doc, <<>>)
    IN IF r.doc.live THEN [r.doc EXCEPT !.nodes = r.acc] ELSE r.doc

\* document.getElementById(id) finds an element
InDocument(id) ==
    \/ id \in placed
    \/ gallery.live /\ id = "gallery"
    \/ gallery.live /\ \E i \in DOMAIN gallery.nodes : gallery.nodes[i].id = id

refreshCheckboxes_noClone(dom, cur_dir) == Append(dom, cur_dir)

\* _refreshCheckboxes: the listeners of the element that replaces "dom".
\* cloneNode copies no listener; one listener for cur_dir is added.
refreshCheckboxes(dom, cur_dir) == <<cur_dir>>

\* _newPathButton: an entry with one click listener, refreshPage(target_path)
newPathButton(target_path) ==
    [target |-> target_path, listeners |-> <<target_path>>]

\* _createHome: an entry with one click listener, goHome
createHome == [target |-> <<>>, listeners |-> << <<>> >>]

\* Array.prototype.join("/")
RECURSIVE Join(_)
Join(tokens) ==
    IF tokens = <<>> THEN <<>>
    ELSE IF Len(tokens) = 1 THEN tokens[1]
    ELSE tokens[1] \o <<"/">> \o Join(Tail(tokens))

\* updateNavBar: a new navigation bar with the home entry, one entry per
\* prefix of cur_dir, and one entry per inner directory
updateNavBar(cur_dir, inner_dirs) ==
    LET cur_dir_tokens == Split(cur_dir)
    IN [built |-> TRUE,
        dir |-> cur_dir,
        entries |->
            <<createHome>>
            \o (IF cur_dir_tokens[1] # <<>>
                THEN [i \in 1..Len(cur_dir_tokens) |->
                         newPathButton(Join(SubSeq(cur_dir_tokens, 1, i)))]
                ELSE <<>>)
            \o [i \in DOMAIN inner_dirs |-> newPathButton(inner_dirs[i])]]

\* refreshPage up to its await: both checkboxes are replaced by clones bound
\* to cur_dir, and the request is sent
refreshPage(cur_dir) ==
    /\ nrefresh < MaxRefreshes
    /\ Checkboxes \subseteq placed
    /\ cbListeners' =
           [cb \in Checkboxes |-> refreshCheckboxes(cbListeners[cb], cur_dir)]
    /\ nrefresh' = nrefresh + 1
    /\ lastDir' = cur_dir
    /\ pending' = pending \cup {[id |-> nrefresh + 1, dir |-> cur_dir]}

\* a click on an option checkbox: a listener of the checkbox runs
ClickCheckbox(cb) ==
    /\ \E i \in DOMAIN cbListeners[cb] : refreshPage(cbListeners[cb][i])
    /\ UNCHANGED <<gallery, placed, navBar, listed, posted>>

\* a click on an entry of the navigation bar: a listener of the entry runs
ClickNavEntry(e) ==
    /\ e \in DOMAIN navBar.entries
    /\ \E i \in DOMAIN navBar.entries[e].listeners :
           refreshPage(navBar.entries[e].listeners[i])
    /\ UNCHANGED <<gallery, placed, navBar, listed, posted>>

\* _updateDOM(response_dict, cur_dir): updateNavBar, then refreshGallery
updateDOM(c, inner_dirs, file_keys) ==
    LET doc == refreshGallery(file_keys, c.id,
                   [placed |-> placed, live |-> gallery.live,
                    nodes |-> gallery.nodes])
    IN /\ navBar' = updateNavBar(c.dir, inner_dirs)
       /\ gallery' = [live |-> doc.live, nodes |-> doc.nodes]
       /\ placed' = doc.placed
       /\ listed' = file_keys

\* refreshPage after its await, the response parsed: _updateDOM(data,
\* cur_dir) with the listing of the response, or with a body that has no
\* inner_dirs and no file_keys (the status of the response is not looked
\* at, and both are read with ?.forEach).  updateNavBar needs the
\* navigation bar of the page.
RefreshResolved(c) ==
    /\ c \in pending
    /\ pending' = pending \ {c}
    /\ InDocument("navigation_bar")
    /\ \/ \E file_keys \in StaticListings :
              updateDOM(c, InnerDirs(c.dir), file_keys)
       \/ updateDOM(c, <<>>, <<>>)
    /\ UNCHANGED <<cbListeners, nrefresh, lastDir, posted>>

\* the promise of refreshPage rejects: the request fails, response.json()
\* cannot parse the body, or updateNavBar throws
RefreshRejected(c) ==
    /\ c \in pending
    /\ pending' = pending \ {c}
    /\ UNCHANGED <<gallery, placed, navBar, listed, cbListeners, nrefresh,
                   lastDir, posted>>

RefreshResponse(c) == RefreshResolved(c) \/ RefreshRejected(c)

\* a click on the checkbox of a rendered file
CheckPhoto(i) ==
    /\ gallery.live
    /\ i \in DOMAIN gallery.nodes
    /\ gallery.nodes[i].kind = "impression"
    /\ gallery' = [gallery EXCEPT !.nodes[i].checked = ~@]
    /\ UNCHANGED <<placed, cbListeners, navBar, nrefresh, lastDir, pending,
                   listed, posted>>

\* the checkboxes of class selected_photos in the document
SelectedPhotos ==
    IF gallery.live
    THEN SelectSeq(gallery.nodes,
                   LAMBDA n : n.kind = "impression" /\ n.checked)
    ELSE <<>>

\* copyKeys, moveKeys, deleteKeys up to the await of fileAction: the checked
\* keys are collected and unchecked, and the request is sent whatever its
\* file_keys; reading the value of a missing target_dir_input throws
FileActionClick(action) ==
    /\ Len(posted) < MaxPosts
    /\ gallery' = [gallery EXCEPT !.nodes =
                      [i \in DOMAIN @ |-> [@[i] EXCEPT !.checked = FALSE]]]
    /\ IF InDocument("target_dir_input")
       THEN \E target_dir \in {"", "t"} :
              posted' = Append(posted,
                  [action |-> action,
                   file_keys |-> [i \in DOMAIN SelectedPhotos |->
                                     SelectedPhotos[i].value],
                   target_dir |-> target_dir])
       ELSE UNCHANGED posted
    /\ UNCHANGED <<placed, cbListeners, navBar, nrefresh, lastDir, pending,
                   listed>>

\* copyKeys, moveKeys, deleteKeys after the await, the response parsed:
\* refreshPage with the value of #cur_dir, an element only updateNavBar
\* creates; reading it throws while it does not exist.  The status of the
\* response (ok) is not looked at, and neither is its body.
FileActionResolved(i, ok) ==
    /\ i \in DOMAIN posted
    /\ posted' = SubSeq(posted, 1, i - 1) \o SubSeq(posted, i + 1, Len(posted))
    /\ IF navBar.built
       THEN refreshPage(navBar.dir)
       ELSE UNCHANGED <<cbListeners, nrefresh, lastDir, pending>>
    /\ UNCHANGED <<gallery, placed, navBar, listed>>

\* the promise of fileAction rejects (network error, or a body that
\* response.json() cannot parse): copyKeys, moveKeys, deleteKeys stop
FileActionRejected(i) ==
    /\ i \in DOMAIN posted
    /\ posted' = SubSeq(posted, 1, i - 1) \o SubSeq(posted, i + 1, Len(posted))
    /\ UNCHANGED <<gallery, placed, cbListeners, navBar, nrefresh, lastDir,
                   pending, listed>>

FileActionResponse(i) ==
    \/ \E ok \in BOOLEAN : FileActionResolved(i, ok)
    \/ FileActionRejected(i)

InitStatic ==
    /\ ProxyInit
    /\ conf = "nginx_docker"
    /\ url = <<>>
    /\ out = <<>>
    /\ AppInit
    /\ StaticInit
    /\ UploadInit

NextStatic ==
    \/ \E cb \in Checkboxes : ClickCheckbox(cb)
           /\ UNCHANGED <<proxyVars, translateVars, appVars, linkVars, uploadVars, serverVars>>
    \/ \E e \in DOMAIN navBar.entries : ClickNavEntry(e)
           /\ UNCHANGED <<proxyVars, translateVars, appVars, linkVars, uploadVars, serverVars>>
    \/ \E c \in pending : RefreshResponse(c)
           /\ UNCHANGED <<proxyVars, translateVars, appVars, linkVars, uploadVars, serverVars>>
    \/ \E i \in DOMAIN gallery.nodes : CheckPhoto(i)
           /\ UNCHANGED <<proxyVars, translateVars, appVars, linkVars, uploadVars, serverVars>>
    \/ \E action \in Actions : FileActionClick(action)
           /\ UNCHANGED <<proxyVars, translateVars, appVars, linkVars, uploadVars, serverVars>>
    \/ \E i \in DOMAIN posted : FileActionResponse(i)
           /\ UNCHANGED <<proxyVars, translateVars, appVars, linkVars, uploadVars, serverVars>>

SpecStatic == InitStatic /\ [][NextStatic]_vars

(***************************************************************************)
(* The target directory of an upload (apiService.uploadFiles).             *)
(***************************************************************************)
\* length of the targetDir passed to uploadFiles
MaxDirLen == 4

\* the directories passed to uploadFiles: the strings of "/", "a" and "b"
RECURSIVE DirsOfLen(_)
DirsOfLen(n) ==
    IF n = 0 THEN {<<>>}
    ELSE {Append(d, c) : d \in DirsOfLen(n - 1), c \in {"/", "a", "b"}}

UploadDirs == UNION {DirsOfLen(n) : n \in 0..MaxDirLen}

\* mutant: the empty segments are kept
normalizedTargetDir_unfiltered(targetDir_) ==
    Join(Split(targetDir_))

\* targetDir.split("/").filter(Boolean).join("/")
normalizedTargetDir(targetDir_) ==
    Join(SelectSeq(Split(targetDir_), Truthy))

\* normalizedTargetDir ? `/${normalizedTargetDir}` : ""
finalTargetDir(targetDir_) ==
    IF Truthy(normalizedTargetDir(targetDir_))
    THEN <<"/">> \o normalizedTargetDir(targetDir_)
    ELSE <<>>

\* uploadFiles posts its request with target_dir: finalTargetDir.  The
\* directory of the call is the one of the first call, then the directory
\* posted last.
UploadFiles ==
    /\ Len(uploadTarget) < MaxApply
    /\ LET targetDir_ == IF uploadTarget = <<>> THEN uploadDir
                         ELSE uploadTarget[Len(uploadTarget)]
       IN uploadTarget' = Append(uploadTarget, finalTargetDir(targetDir_))
    /\ UNCHANGED uploadDir

InitUpload ==
    /\ ProxyInit
    /\ conf = "nginx_docker"
    /\ url = <<>>
    /\ out = <<>>
    /\ AppInit
    /\ StaticInit
    /\ uploadDir \in UploadDirs
    /\ uploadTarget = <<>>

NextUpload ==
    UploadFiles /\ UNCHANGED <<proxyVars, translateVars, appVars, linkVars, serverVars, staticVars>>

SpecUpload == InitUpload /\ [][NextUpload]_vars

TypeOK ==
    /\ conf \in Confs
    /\ now \in 0..MaxTime
    /\ req.method \in Methods \cup {"NONE"}
    /\ Len(out) <= MaxApply

(***************************************************************************)
(* Vocabulary of the properties.                                           *)
(***************************************************************************)
\* the proxy has replied to a request on a readonly location
OnReadonly == ~Idle /\ req.readonly
\* the proxy has replied to a request on a credentialed location
OnDav == ~Idle /\ ~req.readonly
ReadMethod == req.method \in {"GET", "HEAD"}
\* the request presents the capability the client was issued, unchanged and
\* on the URI it was issued for
Matches ==
    /\ cap # NoCap
    /\ req.md5 = cap.md5
    /\ req.expires = cap.expires
    /\ req.store = cap.store
    /\ req.path = cap.path
\* the resource was served
Served == resp.phase = "content" /\ resp.status = 200
Rejected == resp.status \in 400..499
\* this step is the proxy handling a request
ServeStep == Idle /\ ~Idle'

(***************************************************************************)
(* C1: under nginx_docker.conf a GET or HEAD on a readonly location gets   *)
(* 403 when the signature is missing or does not match, 410 when it        *)
(* matches and the expiry has passed, and the resource when it matches     *)
(* and the expiry lies ahead; no fourth outcome exists.                    *)
(***************************************************************************)
C1_ThreeOutcomes ==
    (conf = "nginx_docker" /\ OnReadonly /\ ReadMethod) =>
        /\ ~Matches => resp.status = 403
        /\ (Matches /\ now > req.expires) => resp.status = 410
        /\ (Matches /\ now < req.expires) => Served
        /\ (resp.status = 403 \/ resp.status = 410 \/ Served)

C1_Witness ==
    /\ conf = "nginx_docker" /\ OnReadonly /\ req.method = "HEAD"
    /\ Matches /\ now > req.expires /\ resp.status = 410

(***************************************************************************)
(* C2: in every sample configuration a GET or HEAD on a readonly location  *)
(* is served only if the request carries the matching signature and an     *)
(* expiry that has not passed.                                             *)
(***************************************************************************)
C2_ServedOnlyWithCapability ==
    (OnReadonly /\ ReadMethod /\ Served) => (Matches /\ now <= req.expires)

C4_AlteredIsInvalid ==
    (conf = "nginx_docker" /\ OnReadonly /\ cap # NoCap
        /\ req.md5 = Tamper(cap.md5)) => resp.status = 403

C4_Witness ==
    /\ conf = "nginx_docker" /\ OnReadonly /\ req.method = "GET"
    /\ cap # NoCap /\ req.md5 = Tamper(cap.md5)
    /\ req.expires = cap.expires /\ req.store = cap.store
    /\ req.path = cap.path /\ now > cap.expires
    /\ resp.status = 403

(***************************************************************************)
(* C5: under nginx_docker.conf the signature issued for (path, expiry)     *)
(* presented with another expiry, on another path or on the same path of   *)
(* the other store's readonly location is answered 403.                    *)
(***************************************************************************)
C5_SignatureCoversExpiryAndPath ==
    (conf = "nginx_docker" /\ OnReadonly /\ cap # NoCap /\ req.md5 = cap.md5
        /\ (req.expires # cap.expires \/ req.path # cap.path
               \/ req.store # cap.store)) => resp.status = 403

C5_Witness ==
    /\ conf = "nginx_docker" /\ OnReadonly /\ req.method = "GET"
    /\ cap # NoCap /\ req.md5 = cap.md5 /\ req.expires = cap.expires
    /\ req.path = cap.path /\ req.store # cap.store
    /\ now < cap.expires /\ resp.status = 403

(***************************************************************************)
(* C6: in both configurations a request on a readonly location whose       *)
(* method is not GET or HEAD is rejected, with or without a valid          *)
(* capability, and leaves both stores as they were.                        *)
(***************************************************************************)
C6_ReadonlyNeverWrites ==
    [][(ServeStep /\ req'.readonly /\ req'.method \notin {"GET", "HEAD"}) =>
          (resp'.status \in 400..499 /\ store' = store)]_vars

C6_Witness ==
    /\ OnReadonly /\ req.method = "DELETE" /\ Matches /\ now < cap.expires
    /\ req.cred = "valid" /\ Rejected /\ store[req.store] = Files

(***************************************************************************)
(* C7: the reply to a request on a readonly location and its effect on the *)
(* stores are the same for every write credential the request could carry; *)
(* under nginx_docker.conf a valid capability is served without            *)
(* credentials and valid credentials without a capability are answered 403.*)
(***************************************************************************)
C7_CredentialsIrrelevant ==
    [][(ServeStep /\ req'.readonly) =>
          /\ \A cr \in Creds :
                LET other == Handle(conf, [req' EXCEPT !.cred = cr], now, store)
                IN  other.status = resp'.status /\ other.store = store'
          /\ (conf = "nginx_docker" /\ req'.method \in {"GET", "HEAD"}) =>
                /\ (Matches' /\ now <= cap.expires /\ req'.cred # "valid")
                      => Served'
                /\ (~Matches' /\ req'.cred = "valid") => resp'.status = 403]_vars

C7_Witness ==
    /\ conf = "nginx_docker" /\ OnReadonly /\ req.method = "GET" /\ Matches
    /\ now <= cap.expires /\ req.cred = "none" /\ Served

(***************************************************************************)
(* C8: under nginx_docker.conf a request on a credentialed location whose  *)
(* method is none of GET, HEAD, PUT, DELETE, MKCOL, COPY, MOVE, PROPFIND,  *)
(* OPTIONS is answered 405; a request on a credentialed location changes   *)
(* a store only if it is a write method with valid credentials.            *)
(***************************************************************************)
C8_AllowListAndCredentials ==
    [][(ServeStep /\ ~req'.readonly) =>
          /\ (conf = "nginx_docker" /\ req'.method \notin
                 {"GET", "HEAD", "PUT", "DELETE", "MKCOL", "COPY", "MOVE",
                  "PROPFIND", "OPTIONS"}) => resp'.status = 405
          /\ store' # store =>
                (req'.cred = "valid" /\ req'.method \in
                    {"PUT", "DELETE", "MKCOL", "COPY", "MOVE"})]_vars

C8_Witness ==
    /\ conf = "nginx_docker" /\ OnDav /\ req.method = "POST"
    /\ req.cred = "valid" /\ resp.status = 405
    /\ store[req.store] # Files

(***************************************************************************)
(* C9: translating a translated URL changes nothing.                       *)
(***************************************************************************)
C9_Idempotent == Len(out) >= 2 => out[2] = out[1]

(***************************************************************************)
(* C10: the translation removes one port token, the leftmost colon-digits  *)
(* run that stands right before a "/", and nothing else when the URL does  *)
(* not hold the internal prefix; a URL made of the internal prefix, a      *)
(* colon, a port, a "/" and a path becomes the external prefix, the "/"    *)
(* and the path.                                                           *)
(***************************************************************************)
AllDigits(s) == Len(s) >= 1 /\ \A k \in 1..Len(s) : s[k] \in Digits

\* a colon at i, n digits and then a "/"
TokenAt(s, i, n) ==
    /\ i >= 1 /\ n >= 1 /\ i + n + 1 <= Len(s)
    /\ s[i] = ":" /\ AllDigits(SubSeq(s, i + 1, i + n)) /\ s[i + n + 1] = "/"

HasToken(s) == \E i \in 1..Len(s), n \in 1..Len(s) : TokenAt(s, i, n)

Occurs(pat, s) ==
    \E i \in 1..Len(s) :
        i + Len(pat) - 1 <= Len(s) /\ SubSeq(s, i, i + Len(pat) - 1) = pat

Without(s, i, n) == SubSeq(s, 1, i - 1) \o SubSeq(s, i + n + 1, Len(s))

C10_StripsOnePortThenRewrites ==
    Len(out) >= 1 =>
        /\ \A n \in 1..Len(url) :
              LET k == Len(ioBaseUrlServer)
              IN  (/\ k + n + 2 <= Len(url)
                   /\ StartsWith(url, ioBaseUrlServer)
                   /\ TokenAt(url, k + 1, n))
                  => out[1] = ioBaseUrlCaller \o SubSeq(url, k + n + 2, Len(url))
        /\ (~HasToken(url) /\ ~Occurs(ioBaseUrlServer, url)) => out[1] = url
        /\ \A i \in 1..Len(url), n \in 1..Len(url) :
              (/\ TokenAt(url, i, n)
               /\ \A j \in 1..(i - 1), m \in 1..Len(url) : ~TokenAt(url, j, m)
               /\ ~Occurs(ioBaseUrlServer, Without(url, i, n)))
              => out[1] = Without(url, i, n)

C10_Witness ==
    /\ Len(out) >= 1
    /\ \E n \in 1..Len(url) :
          /\ StartsWith(url, ioBaseUrlServer)
          /\ TokenAt(url, Len(ioBaseUrlServer) + 1, n)
          /\ Len(url) > Len(ioBaseUrlServer) + n + 2
          /\ out[1] = ioBaseUrlCaller
                       \o SubSeq(url, Len(ioBaseUrlServer) + n + 2, Len(url))

(***************************************************************************)
(* Vocabulary of the gallery properties.                                   *)
(***************************************************************************)
\* the keys with a rendered node: Gallery renders one node per displayed file
RenderedKeys == Range(FileKeys(displayedFiles))

\* the keys of the latest listing
ListedKeys == Range(FileKeys(files))

\* no listing call and no thumbnail run is under way
Settled == fetches = {} /\ passes = {}

(***************************************************************************)
(* C11: after a reconciliation against a listing the keys with a rendered  *)
(* node are exactly the keys of the listing, and every key has exactly one *)
(* rendered node.                                                          *)
(***************************************************************************)
C11_RenderedIsListing ==
    /\ RenderedKeys = ListedKeys
    /\ Cardinality(RenderedKeys) = Len(displayedFiles)

(***************************************************************************)
(* C12: a reconciliation that finds the keys already displayed sends no    *)
(* thumbnail-URL request (and replaces no rendered node).                  *)
(***************************************************************************)
C12_UnchangedListingIsFree ==
    \A p \in passes :
        Range(FileKeys(p.files)) = p.before => Requests(p) = 0

(***************************************************************************)
(* C13: a reconciliation that starts from an empty gallery renders as many *)
(* nodes as the listing has files, whatever its size, and a reconciliation *)
(* against an empty listing leaves no rendered node.                       *)
(***************************************************************************)
C13_EmptyToPopulatedAndBack ==
    [][/\ (displayedFiles = <<>> /\ files' # files)
            => Len(displayedFiles') = Len(files')
       /\ (files' = <<>>) => (displayedFiles' = <<>>)]_vars

(***************************************************************************)
(* C14: one reconciliation pass requests the thumbnail URLs of its keys in *)
(* a batch: it sends at most one request, however many keys it adds.       *)
(***************************************************************************)
C14_OneBatchPerPass ==
    \A p \in passes : Requests(p) <= 1

(***************************************************************************)
(* C15: once a reconciliation is over, the gallery holds a resolved URL    *)
(* only for keys of the latest listing.                                    *)
(***************************************************************************)
C15_UrlsOnlyForListedKeys ==
    Settled => {e.file_key : e \in thumbnailUrls} \subseteq ListedKeys


(***************************************************************************)
(* C19: a copy or move request carries one mapping per selected key, in    *)
(* selection order; the source is the selected key and the destination is  *)
(* the target directory, "/", and the last path segment of the key.  Keys  *)
(* with the same last segment keep a mapping each.                         *)
(***************************************************************************)
LastSegment(k) ==
    LET cut == {i \in DOMAIN k : k[i] = "/"}
    IN IF cut = {} THEN k
       ELSE SubSeq(k, (CHOOSE i \in cut : \A j \in cut : j <= i) + 1, Len(k))

C19_OneMappingPerSelectedKey ==
    [][\A r \in acts' \ acts :
          r.action # "delete" =>
              /\ r.body.delete_source = (r.action = "move")
              /\ Len(r.body.file_mappings) = Len(selectedFiles)
              /\ \A i \in DOMAIN selectedFiles :
                    /\ r.body.file_mappings[i].source_key = selectedFiles[i]
                    /\ r.body.file_mappings[i].destination_key =
                           targetDir \o <<"/">> \o LastSegment(selectedFiles[i])]_vars

\* a request in flight maps two files of different directories onto the
\* same destination
C19_Witness ==
    \E r \in acts :
        /\ r.action \in {"copy", "move"}
        /\ Len(r.body.file_mappings) = 2
        /\ r.body.file_mappings[1].source_key # r.body.file_mappings[2].source_key
        /\ r.body.file_mappings[1].destination_key =
               r.body.file_mappings[2].destination_key
        /\ targetDir # <<>>

(***************************************************************************)
(* C20: when a copy, move or delete completes without error, the selection *)
(* becomes empty and a fresh listing is requested.                         *)
(***************************************************************************)
C20_SuccessClearsAndRefreshes ==
    [][(\E r \in acts : ActionSucceeded(r)) =>
          /\ selectedFiles' = <<>>
          /\ \E f \in fetches' \ fetches : f.stage = "list"]_vars

(***************************************************************************)
(* Vocabulary of the static page properties.                               *)
(***************************************************************************)
\* the nodes the page shows in its gallery
RenderedNodes == IF gallery.live THEN gallery.nodes ELSE <<>>

\* a response of refreshPage is handled in this step
ResponseStep == \E c \in pending : pending' = pending \ {c}

\* t is d, or a directory above d
IsPrefixDir(t, d) ==
    \/ t = d
    \/ /\ 0 < Len(t)
       /\ Len(t) < Len(d)
       /\ SubSeq(d, 1, Len(t)) = t
       /\ d[Len(t) + 1] = "/"

(***************************************************************************)
(* C16: refreshGallery(K) of the static gallery keeps, for every key of K  *)
(* that had a rendered node, that very node (same identity, image source   *)
(* and checkbox state), creates nodes only for keys that had none, and     *)
(* afterwards shows one node per key of K and none for any other key.      *)
(***************************************************************************)
C16_ReusesCreatesDrops ==
    [][ResponseStep =>
          LET before == Range(RenderedNodes)
              after == Range(RenderedNodes')
          IN /\ \A n \in before : n.id \in Range(listed') => n \in after
             /\ \A n \in after \ before :
                    \A m \in before : m.id # n.id
             /\ [i \in DOMAIN RenderedNodes' |-> RenderedNodes'[i].id]
                    = listed']_vars

(***************************************************************************)
(* C17, as claimed: after any number of refreshPage calls every re-bound   *)
(* control carries exactly one click listener and is bound to the          *)
(* directory of the most recent refreshPage call: the option checkboxes,   *)
(* and, once no call is in flight, the navigation bar built by             *)
(* updateNavBar.                                                           *)
(***************************************************************************)
C17_BoundToMostRecentCall ==
    /\ \A cb \in Checkboxes : cbListeners[cb] = <<lastDir>>
    /\ \A e \in DOMAIN navBar.entries : Len(navBar.entries[e].listeners) = 1
    /\ (pending = {} /\ navBar.built) => navBar.dir = lastDir

(***************************************************************************)
(* C17, amended: after any number of refreshPage calls each option         *)
(* checkbox carries exactly one click listener, bound to the directory of  *)
(* the most recent refreshPage call, and each entry of the navigation bar  *)
(* carries exactly one click listener, bound to the directory the entry    *)
(* names: home, the directory of the response the bar was built from, a    *)
(* directory above it, or one of its inner directories.                    *)
(***************************************************************************)
C17_OneListenerPerControl ==
    /\ \A cb \in Checkboxes : cbListeners[cb] = <<lastDir>>
    /\ \A e \in DOMAIN navBar.entries :
          /\ navBar.entries[e].listeners = <<navBar.entries[e].target>>
          /\ \/ navBar.entries[e].target = <<>>
             \/ IsPrefixDir(navBar.entries[e].target, navBar.dir)
             \/ navBar.entries[e].target \in Range(InnerDirs(navBar.dir))

\* the checkboxes have been bound a second time, to another directory, and
\* the navigation bar has entries for a directory and the one above it
C17_Witness ==
    /\ nrefresh > 1
    /\ lastDir # <<>>
    /\ navBar.built
    /\ Len(navBar.entries) > 1

(***************************************************************************)
(* C18: a copy, move or delete submitted with an empty selection sends no  *)
(* request: no request in flight has an empty list of files.               *)
(***************************************************************************)
C18_EmptySelectionSendsNothing ==
    /\ \A i \in DOMAIN posted : posted[i].file_keys # <<>>
    /\ \A r \in acts :
          IF r.action = "delete" THEN r.body.file_entries # <<>>
          ELSE r.body.file_mappings # <<>>

\* the keys of the checked photo checkboxes of the static page
SelectedKeys == {SelectedPhotos[i].value : i \in DOMAIN SelectedPhotos}

\* C21: when a copy, move or delete request fails, the selection is what it
\* was before the action: neither the submission of the request nor its
\* failure changes the selection (static page: copyKeys, moveKeys,
\* deleteKeys and the rejection of fileAction; web client: handleAction and
\* its error branch).
C21_FailureKeepsSelection ==
    [][/\ (\/ \E action \in Actions : FileActionClick(action)
           \/ \E i \in DOMAIN posted : FileActionRejected(i))
          => SelectedKeys' = SelectedKeys
       /\ (\/ \E action \in Actions : HandleAction(action)
           \/ \E r \in acts : ActionFailed(r))
          => selectedFiles' = selectedFiles]_vars

\* C22: at most one action or reconciliation is in progress at any time: a
\* listing flow (fetchDirectoryContents), a run of loadThumbnailUrls and a
\* copy, move or delete request of the web client never overlap, and
\* neither do the refreshes and file actions of the static page.
C22_OneFlowAtATime ==
    /\ Cardinality(fetches) + Cardinality(passes) + Cardinality(acts) <= 1
    /\ Cardinality(pending) + Len(posted) <= 1

\* C23: when the listing request of a directory fails, nothing of the
\* previous listing stays on screen: the web client displays no files after
\* a failed listing or file-info request, and the static page renders no
\* file after a failed refresh.
C23_FailureClearsDisplay ==
    [][/\ \A f \in fetches :
            (ListingFailed(f) \/ FilesInfoFailed(f))
                => files' = <<>> /\ displayedFiles' = <<>>
       /\ \A c \in pending : RefreshRejected(c) => RenderedNodes' = <<>>]_vars

\* the displayed file at position i has no thumbnail key, or no URL was
\* obtained for it
NoArtifact(i) ==
    \/ ~Truthy(displayedFiles[i].thumbnail_key)
    \/ ~Truthy(ThumbnailUrl(displayedFiles[i].file_key))

\* every displayed file has its cell, and a file without thumbnail key or
\* URL has the fallback icon, its checkbox and its clickable area
FallbackCells ==
    /\ Len(Render) = Len(displayedFiles)
    /\ \A i \in DOMAIN displayedFiles :
          /\ Render[i].key = displayedFiles[i].file_key
          /\ NoArtifact(i) =>
                /\ Render[i].content = "BrokenImageIcon"
                /\ Render[i].onChange = displayedFiles[i].file_key
                /\ Render[i].onClick = displayedFiles[i].file_key

\* C24: a listed file without thumbnail key, or whose URL could not be
\* obtained, is still rendered, with the fallback icon, and stays selectable
\* and clickable; a turn of loadThumbnailUrls, failed or not, leaves the run
\* going with the remaining files still to be requested.
C24_FallbackRendered ==
    [][/\ FallbackCells'
       /\ \A p \in passes :
            ThumbStep(p) =>
                \E q \in passes' :
                    /\ q.id = p.id
                    /\ Pending(q) = Pending(p) \ {Least(Pending(p))}]_vars

\* the URL request of x/1 failed and the one of y/1, after it, succeeded;
\* x/1 and the file without thumbnail are shown with the icon, selected, and
\* x/1 has been opened
C24_Witness ==
    /\ passes = {}
    /\ FileKeys(displayedFiles) = SmallKeys
    /\ ThumbnailUrl(SmallKeys[1]) = <<>>
    /\ ThumbnailUrl(SmallKeys[2]) # <<>>
    /\ Render[1].content = "BrokenImageIcon" /\ Render[1].checked
    /\ Render[2].content = "video"
    /\ Render[3].content = "BrokenImageIcon" /\ Render[3].checked
    /\ getFilesUrl(SmallKeys[1], Issued(ioBaseUrlServer, SmallKeys[1])) \in opened

\* d reports success or failure for each of the keys
IsReport(d, keys) ==
    /\ d # Undefined
    /\ DOMAIN d = keys
    /\ \A k \in keys : d[k] \in {"succeeded", "failed"}

\* C25: the caller of a batch delete receives a report with one outcome per
\* submitted key, whether the response is a success or a failure.
C25_PerKeyReport ==
    [][\A r \in acts :
          r.action = "delete" =>
             LET keys == Range(FileKeys(r.body.file_entries))
             IN /\ ActionSucceeded(r) => IsReport(ApiResponse(TRUE).data, keys)
                /\ ActionFailed(r) => IsReport(ApiResponse(FALSE).data, keys)]_vars

\* C26: a move is submitted as a copy with delete_source true and a copy
\* with delete_source false; after a served move no source key is in the
\* listing of its directory and every destination key is in the listing of
\* its directory, and after a served copy both are.
C26_MoveIsCopyAndDelete ==
    [][\A r \in acts :
          /\ r.action \in {"copy", "move"} =>
                r.body.delete_source = (r.action = "move")
          /\ CopyServed(r) =>
                \A i \in DOMAIN r.body.file_mappings :
                    LET src == r.body.file_mappings[i].source_key
                        dst == r.body.file_mappings[i].destination_key
                    IN /\ dst \in List(library', DirName(dst))
                       /\ r.action = "move" =>
                              src \notin List(library', DirName(src))
                       /\ r.action = "copy" =>
                              src \in List(library', DirName(src))]_vars

\* x/1 has been moved to y/1 and the refresh is under way
C26_Witness ==
    /\ nact = 1
    /\ acts = {}
    /\ List(library, <<"x">>) = {}
    /\ List(library, <<"y">>) = {SmallKeys[2]}
    /\ fetches # {}

\* C27: no selection survives a navigation: in every state the selected
\* keys are keys of the displayed listing.
C27_SelectionWithinListing ==
    Range(selectedFiles) \subseteq Range(FileKeys(displayedFiles))

\* C28: a copy or move request is only submitted with a non-empty target
\* directory, and a delete request carries no target directory (web client:
\* the request handleAction sends; static page: the payload of fileAction).
C28_TargetDirOnlyForCopyAndMove ==
    [][/\ \A r \in acts' \ acts :
            /\ r.action \in {"copy", "move"} => Truthy(targetDir)
            /\ r.action = "delete" => DOMAIN r.body = {"file_entries"}
       /\ Len(posted') > Len(posted) =>
            LET payload == posted'[Len(posted')]
            IN /\ payload.action \in {"copy", "move"} => payload.target_dir # ""
               /\ payload.action = "delete" => "target_dir" \notin DOMAIN payload]_vars

\* the URLs the server may issue for a key or a thumbnail key
IssuedUrls ==
    LET keys == UNION {Range(L) : L \in Listings}
    IN {IssuedUrl(Issued(b, k), k) : b \in BaseUrls,
                          k \in keys \cup
                                {FileEntry(f).thumbnail_key : f \in keys}}

\* the capability URLs kept in the state of Gallery or opened by a click
UsedUrls == {e.href : e \in thumbnailUrls} \cup opened

\* C29: every capability URL the client stores in gallery state or opens
\* on a file click is the translation of an issued URL: it starts with the
\* external address and holds the internal address nowhere.
C29_OnlyTranslatedUrls ==
    \A u \in UsedUrls :
        /\ \E i \in IssuedUrls : u = transformWebDAVUrl(i)
        /\ StartsWith(u, ioBaseUrlCaller)
        /\ ~Occurs(ioBaseUrlServer, u)
        /\ u \notin IssuedUrls

\* the thumbnail URL of x/1 is stored and the URL of x/1 has been opened
C29_Witness ==
    /\ ThumbnailUrl(SmallKeys[1]) =
           ioBaseUrlCaller \o <<"/">> \o Paths(FileEntry(SmallKeys[1]).thumbnail_key)
    /\ ioBaseUrlCaller \o <<"/">> \o Paths(SmallKeys[1]) \in opened

\* a request of the web client, or of the static page, is sent in this step
Submitted == acts' \ acts # {}
StaticSubmitted == Len(posted') > Len(posted)

Quiet == fetches = {}

\* C31: whenever no listing or file-info request is in flight, the files
\* and the directories App holds were both set by the response to the most
\* recently issued call of fetchDirectoryContents.
C31_LatestListingShown ==
    Quiet => shownBy.files = nfetch /\ shownBy.directories = nfetch

\* C32: the URL held for a key is the one obtained by the most recently
\* started run of loadThumbnailUrls: a run started earlier that finishes
\* later replaces no URL the most recently started run has stored.
C32_NewestPassWins ==
    [][\A p \in passes :
          (PassFinish(p) /\ p.id # shownBy.files) =>
              \A e \in thumbnailUrls :
                  e.url = shownBy.files => e \in thumbnailUrls']_vars

\* C33: the re-listing request of an action is issued only after the
\* response to the mutation, at most once, and never when the mutation
\* failed (web client: handleAction and onRefresh; static page: copyKeys,
\* moveKeys, deleteKeys and refreshPage).
C33_RelistOnlyAfterSuccess ==
    [][/\ (\E action \in Actions : HandleAction(action)) => fetches' = fetches
       /\ \A r \in acts :
            /\ ActionFailed(r) => fetches' = fetches
            /\ ActionSucceeded(r) => Cardinality(fetches' \ fetches) = 1
       /\ (\E action \in Actions : FileActionClick(action)) => pending' = pending
       /\ \A i \in DOMAIN posted :
            /\ (FileActionResolved(i, FALSE) \/ FileActionRejected(i))
                  => pending' = pending
            /\ FileActionResolved(i, TRUE)
                  => Cardinality(pending' \ pending) <= 1]_vars

\* some selected key has no entry in the files list of App
StaleSelection ==
    \E i \in DOMAIN selectedFiles : Found(selectedFiles[i]) = {}

\* C34: handleAction validates the whole selection before it sends
\* anything: when some selected key has no entry in files, no request is
\* sent, the selection is left as it is and no refresh is started.
C34_AllOrNothing ==
    [][StaleSelection =>
          \A action \in Actions :
              HandleAction(action) =>
                  /\ acts' = acts
                  /\ selectedFiles' = selectedFiles
                  /\ fetches' = fetches]_vars

\* a key selected before a refresh has no entry in the files list set by
\* the refresh, and the action buttons can be clicked
C34_Witness ==
    /\ StaleSelection
    /\ shownBy.files = 2
    /\ nact < MaxActions
    /\ fetches = {}

\* C35: a call of getThumbnailUrl or getFilesUrl returns "" when the key is
\* empty, the request fails, the status is not OK or the response holds no
\* path for the key, and every other result is the translated URL built
\* from the path issued for that key
C35_UrlOrEmpty ==
    \A i \in DOMAIN result :
        LET key == call.key
            data == call.response
        IN /\ (\/ key = <<>>
               \/ data.kind # "data"
               \/ key \notin DOMAIN data.paths) => result[i] = <<>>
           /\ result[i] # <<>> =>
                  /\ key \in DOMAIN data.paths
                  /\ result[i] = transformWebDAVUrl(
                         data.base_url \o <<"/">> \o data.paths[key])

\* C36: every node of the static gallery was created by a refresh for the
\* file key it stands for, and no element of the page (the gallery
\* container, a control whose id equals a file key) is moved into the
\* gallery: the elements of the page stay at their place
C36_OnlyImpressionsInGallery ==
    /\ gallery.live
    /\ placed = PageIds
    /\ \A i \in DOMAIN gallery.nodes :
           /\ gallery.nodes[i].kind = "impression"
           /\ gallery.nodes[i].value = gallery.nodes[i].id
           /\ gallery.nodes[i].by \in 1..nrefresh

\* the positions of s at which a non-empty segment starts
SegmentStarts(s) ==
    {i \in DOMAIN s : s[i] # "/" /\ (i = 1 \/ s[i - 1] = "/")}

\* the non-empty segment of s that starts at i
SegmentAt(s, i) ==
    LET ends == {j \in i..Len(s) : j = Len(s) \/ s[j + 1] = "/"}
    IN SubSeq(s, i, Least(ends))

\* the non-empty segments of s, in their order
RECURSIVE SegmentsFrom(_, _)
SegmentsFrom(s, starts) ==
    IF starts = {} THEN <<>>
    ELSE <<SegmentAt(s, Least(starts))>> \o
         SegmentsFrom(s, starts \ {Least(starts)})

NonEmptySegments(s) == SegmentsFrom(s, SegmentStarts(s))

\* what a call of uploadFiles was given: the directory of the first call,
\* or the directory the call before it has posted
UploadGiven(i) == IF i = 1 THEN uploadDir ELSE uploadTarget[i - 1]

\* C37: the target directory uploadFiles posts is "" for a directory with
\* nothing but separators, and otherwise starts with "/", has no empty
\* segment and no trailing "/", and holds the non-empty segments of the
\* directory given, in their order; normalizing it again changes nothing
C37_NormalizedTargetDir ==
    \A i \in DOMAIN uploadTarget :
        LET given == UploadGiven(i)
            r == uploadTarget[i]
        IN /\ r = <<>> <=> \A j \in DOMAIN given : given[j] = "/"
           /\ r # <<>> =>
                  /\ r[1] = "/"
                  /\ r[Len(r)] # "/"
                  /\ \A j \in 1..(Len(r) - 1) : ~(r[j] = "/" /\ r[j + 1] = "/")
           /\ NonEmptySegments(r) = NonEmptySegments(given)
           /\ i > 1 => r = given

\* "a//b" has been normalized to "/a/b", and "/a/b" to itself
C37_Witness ==
    /\ uploadDir = <<"a", "/", "/", "b">>
    /\ uploadTarget = << <<"/", "a", "/", "b">>, <<"/", "a", "/", "b">> >>

===============================================================================
